---- MODULE Spec2Model ----
(***************************************************************************)
(* Model of the Telegram cloner of src/main.py: TelegramCloner.start_cloning *)
(* (the driver), get_messages and process_message (the dispatch engine).     *)
(* process_message is cut at its await points: every download, entity       *)
(* lookup, send and sleep is one action whose outcome (a result or a raised *)
(* exception) is chosen by the platform client.                             *)
(* SpecMain adds main() and a user interrupt; SpecTransform runs the text   *)
(* transformer of process_message on character sequences.                   *)
(***************************************************************************)
EXTENDS Integers, Sequences, FiniteSets, TLC

\* ---------------------------------------------------------------- bounds
MaxId == 2          \* ids of the source conversation are 1..MaxId
MaxWait == 2        \* a rate-limit signal carries seconds in 1..MaxWait

\* ------------------------------------------------------- program constants
None == 0                        \* Python None for ids (ids are positive)
MAX_MESSAGES == 0                \* 0 means no limit
ReverseParamNewestFirst == FALSE \* faulty variant: the iterator's default order
ReverseParam == TRUE             \* params['reverse']

\* ------------------------------------------------------------ input sets
SourceIds == 1..MaxId
AlbumIds == {71}
WaitSecs == 1..MaxWait
Texts == {"", "hi"}
FwdKinds == {"none", "from_id", "no_from_id"}
\* ordered attribute lists of a document
DocAttrLists == {<<>>, <<"filename">>, <<"filename", "video">>}
\* answers of a poll, in order
AnswerLists == {<<"yes">>, <<"yes", "no">>}
PollQuestion == "question?"
Contact == [first_name |-> "Ann", last_name |-> "Lee", phone_number |-> "555"]

\* the exceptions a client call may raise
RateLimitErrors ==
    {[type |-> t, seconds |-> w] : t \in {"FloodWaitError", "SlowModeWaitError"}, w \in WaitSecs}
OtherErrors ==
    {[type |-> t, seconds |-> 0] :
        t \in {"ChatWriteForbiddenError", "ChatAdminRequiredError", "Exception"}}
Errors == RateLimitErrors \cup OtherErrors
OK == [type |-> "ok", seconds |-> 0]
UnboundLocalError == [type |-> "Exception", seconds |-> 0]
OSError == [type |-> "Exception", seconds |-> 0]
SendOutcomes == {OK} \cup Errors

VARIABLES
    pc,                      \* position in start_cloning / process_message
    history,                 \* the source conversation: id -> "message" | "service"
    ANONYMIZE_FORWARDS,      \* configuration toggle
    messages,                \* the list returned by get_messages (source ids)
    i,                       \* index of the driver loop (1-based)
    message,                 \* the argument of process_message
    depth,                   \* nested process_message calls below the driver's
    message_map, processed_messages_ids, seen_album_ids, stats,
    text, file, reply_to,    \* locals of process_message
    exc,                     \* the exception held by the handler that sleeps
    downloads,               \* number of files in downloads/
    connected,               \* the platform client is connected
    outcome,                 \* how start_cloning ended: "" | "stats" | "raised" |
                             \*   "interrupted" | "cancelled"
    REPLACE_TEXT, REMOVE_URLS, ADD_SOURCE_LINK,     \* configuration toggles
    text_replacements_dict,  \* the configured (original, replacement) pairs, in order
    source_entity,           \* kind of the source conversation
    reported,                \* main() has printed the final report
    exit_code,               \* the exit code of the process (-1 while it runs)
    unremovable,             \* files whose removal failed in the finally clause
    \* history variables, for stating the properties
    dest,                    \* destination conversation: source id of each created message
    calls,                   \* source ids the driver called process_message with
    redo,                    \* the current call repeats an earlier one
    stats0,                  \* stats when the driver called process_message
    nsends,                  \* sends attempted for this message
    last_send,               \* the latest send attempt of this message and its outcome
    slept,                   \* total suspension while handling this message
    ndownloads,              \* download attempts, this message
    album_msgs, album_sent   \* per album id: messages dispatched / that reached a send

coreVars == <<message_map, stats, dest, downloads, pc, exc>>
localVars == <<text, file, reply_to>>
sendGhosts == <<nsends, last_send, album_sent>>
configVars == <<REPLACE_TEXT, REMOVE_URLS, ADD_SOURCE_LINK, text_replacements_dict,
                source_entity>>
mainVars == <<reported, exit_code, unremovable>>
runVars == <<history, ANONYMIZE_FORWARDS, messages, i, connected, outcome, calls, redo, stats0,
             configVars, mainVars>>
callVars == <<message, depth, processed_messages_ids, seen_album_ids, slept, ndownloads,
              album_msgs>>
vars == <<coreVars, localVars, sendGhosts, runVars, callVars>>

\* ---------------------------------------------------------------- helpers
Inc(s, k) == [s EXCEPT ![k] = @ + 1]

StatKeys == {"total", "cloned", "skipped", "failed", "photos", "videos", "files", "voices",
             "music", "gifs", "stickers", "polls", "contacts", "albums", "forwards",
             "text_only"}

InitStats == [k \in StatKeys |-> 0]

\* the id the platform gives the n-th message created in the destination
DestId(n) == n + 10

BlankMessage(id) ==
    [id |-> id, media |-> "unread", grouped_id |-> None, reply_to |-> None,
     fwd_from |-> "none", text |-> "", attributes |-> <<>>, answers |-> <<>>]

NoSend == [site |-> "", text |-> <<>>, file |-> FALSE, reply_to |-> None, out |-> OK]

MessagesWith(id, md, attrs, answers, texts) ==
    {[id |-> id, media |-> md, grouped_id |-> g, reply_to |-> r, fwd_from |-> f,
      text |-> t, attributes |-> attrs, answers |-> answers] :
        g \in {None} \cup AlbumIds, r \in {None} \cup 1..(id - 1), f \in FwdKinds, t \in texts}

\* the messages the conversation may hold under a given id; process_message
\* tests the text for emptiness only in the caption of a poll
Shapes(id) ==
    UNION {MessagesWith(id, md, <<>>, <<>>, {"hi"}) :
               md \in {"none", "photo", "contact", "webpage"}}
    \cup UNION {MessagesWith(id, "document", a, <<>>, {"hi"}) : a \in DocAttrLists}
    \cup UNION {MessagesWith(id, "poll", <<>>, o, Texts) : o \in AnswerLists}

\* ------------------------------------------------------- pure functions
\* client.iter_messages(entity, reverse=...): every item of the conversation,
\* oldest first when reverse is set, newest first otherwise
IterMessages(reverse) ==
    [k \in 1..MaxId |-> IF reverse THEN k ELSE MaxId + 1 - k]

\* the loop of get_messages over the items the iterator yielded
RECURSIVE Fetch(_, _)
Fetch(items, acc) ==
    IF items = <<>> THEN acc
    ELSE IF history[Head(items)] = "service" THEN Fetch(Tail(items), acc)
    ELSE LET acc2 == Append(acc, Head(items)) IN
         IF MAX_MESSAGES > 0 /\ Len(acc2) >= MAX_MESSAGES THEN acc2
         ELSE Fetch(Tail(items), acc2)

\* the for/else over document.attributes: the counter of the first matching attribute
RECURSIVE FirstMatch(_)
FirstMatch(attrs) ==
    IF attrs = <<>> THEN "files"
    ELSE CASE Head(attrs) = "video" -> "videos"
           [] Head(attrs) = "audio_voice" -> "voices"
           [] Head(attrs) = "audio" -> "music"
           [] Head(attrs) = "sticker" -> "stickers"
           [] Head(attrs) = "animated" -> "gifs"
           [] OTHER -> FirstMatch(Tail(attrs))

\* the counter a downloaded document increments ("" when none)
ClassifyDocument(attrs) == IF attrs = <<>> THEN "" ELSE FirstMatch(attrs)

\* the text of process_message is kept as its sequence of lines
RECURSIVE OptionLines(_)
OptionLines(answers) ==
    IF answers = <<>> THEN <<>> ELSE <<Head(answers)>> \o OptionLines(Tail(answers))

\* faulty variant: the options are left out of the flattened poll
PollFallbackQuestionOnly(txt, answers) == txt \o <<PollQuestion>>

PollFallbackText(txt, answers) == txt \o <<PollQuestion>> \o OptionLines(answers)

ContactFallbackText(txt) ==
    txt \o <<Contact.first_name, Contact.last_name, Contact.phone_number>>

ForwardedText(txt) == txt \o <<"[Forwarded message]">>

\* faulty variant: the retry without media is not annotated
MediaDroppedTextPlain(txt) == txt

MediaDroppedText(txt) == txt \o <<"[Media could not be sent]">>

\* the first except clause of process_message that matches an exception
OuterClause(e) ==
    CASE e.type = "FloodWaitError" -> "flood"
      [] e.type \in {"ChatWriteForbiddenError", "ChatAdminRequiredError"} -> "permission"
      [] e.type = "SlowModeWaitError" -> "slowmode"
      [] OTHER -> "exception"

\* duplicate guard and album guard
\* faulty variant: no duplicate guard
AlreadyProcessedNever(id) == FALSE

AlreadyProcessed(id) == id \in processed_messages_ids

\* faulty variant: no album guard
AlbumSkipNever(g) == FALSE

AlbumSkip(g) == g # None /\ g \in seen_album_ids

\* faulty variant: the album id is not recorded when its first message is dispatched
SeenAfterNever(g) == seen_album_ids

SeenAfter(g) == IF g # None THEN seen_album_ids \cup {g} ELSE seen_album_ids

\* reply resolution against message_map
ResolveReply(r) ==
    IF r # None /\ r \in DOMAIN message_map THEN message_map[r] ELSE None

\* ------------------------------------------------------------------ Init
\* TelegramCloner.__init__, before start_cloning runs
Init ==
    /\ pc = "start"
    /\ history \in [SourceIds -> {"message", "service"}]
    /\ ANONYMIZE_FORWARDS \in BOOLEAN
    /\ messages = <<>>
    /\ i = 1
    /\ message = BlankMessage(None)
    /\ depth = 0
    /\ message_map = [x \in {} |-> None]
    /\ processed_messages_ids = {}
    /\ seen_album_ids = {}
    /\ stats = InitStats
    /\ text = <<>>
    /\ file = FALSE
    /\ reply_to = None
    /\ exc = OK
    /\ downloads = 0
    /\ connected = FALSE
    /\ outcome = ""
    /\ REPLACE_TEXT = FALSE
    /\ REMOVE_URLS = FALSE
    /\ ADD_SOURCE_LINK = FALSE
    /\ text_replacements_dict = <<>>
    /\ source_entity = "Channel"
    /\ reported = FALSE
    /\ exit_code = -1
    /\ unremovable = 0
    /\ dest = <<>>
    /\ calls = <<>>
    /\ redo = FALSE
    /\ stats0 = InitStats
    /\ nsends = 0
    /\ last_send = NoSend
    /\ slept = 0
    /\ ndownloads = 0
    /\ album_msgs = [g \in AlbumIds |-> 0]
    /\ album_sent = [g \in AlbumIds |-> 0]

\* --------------------------------------------------------- start_cloning
\* os.makedirs and connect(): client.start() and the two entity lookups
Connect ==
    /\ pc = "start"
    /\ \E r \in {"ok", "start_failed", "entity_failed"} :
          /\ connected' = (r # "start_failed")
          /\ IF r = "ok"
             THEN pc' = "get_messages" /\ outcome' = outcome
             ELSE pc' = "finally" /\ outcome' = "raised"
    /\ UNCHANGED <<message_map, stats, dest, downloads, exc, localVars, sendGhosts, callVars,
                   history, ANONYMIZE_FORWARDS, messages, i, calls, redo, stats0,
                   configVars, mainVars>>

\* get_messages(): the iterator yields n items and then ends or raises
GetMessages ==
    /\ pc = "get_messages"
    /\ \E n \in 0..MaxId :
          LET items == IterMessages(ReverseParam)
              got == Fetch(SubSeq(items, 1, n), <<>>)
              total == [stats EXCEPT !["total"] = @ + Len(got)]
          IN /\ stats' = total
             /\ stats0' = total
             /\ IF n < Len(items)
                THEN messages' = <<>> /\ pc' = "finally" /\ outcome' = "raised"
                ELSE /\ messages' = got
                     /\ IF got = <<>>
                        THEN pc' = "finally" /\ outcome' = "stats"
                        ELSE pc' = "loop" /\ outcome' = outcome
    /\ UNCHANGED <<message_map, dest, downloads, exc, localVars, sendGhosts, callVars,
                   history, ANONYMIZE_FORWARDS, i, connected, calls, redo,
                   configVars, mainVars>>

\* one iteration of the driver loop up to the call of process_message, or the
\* end of the loop
LoopStep ==
    /\ pc = "loop"
    /\ IF i <= Len(messages)
       THEN /\ message' = BlankMessage(messages[i])
            /\ calls' = Append(calls, messages[i])
            /\ pc' = "entry"
            /\ outcome' = outcome
       ELSE /\ pc' = "finally"
            /\ outcome' = "stats"
            /\ UNCHANGED <<message, calls>>
    /\ UNCHANGED <<message_map, stats, dest, downloads, exc, localVars, sendGhosts,
                   depth, processed_messages_ids, seen_album_ids, slept, ndownloads,
                   album_msgs, history, ANONYMIZE_FORWARDS, messages, i, connected, redo,
                   stats0, configVars, mainVars>>

\* faulty variant: a failed message ends the run with the error
ProgressAbortOnFailure ==
    /\ pc = "returned"
    /\ IF stats["failed"] > stats0["failed"]
       THEN pc' = "finally" /\ outcome' = "raised"
       ELSE pc' = "loop" /\ outcome' = outcome
    /\ i' = IF redo THEN i ELSE i + 1
    /\ redo' = FALSE
    /\ message' = BlankMessage(None)
    /\ depth' = 0
    /\ text' = <<>>
    /\ file' = FALSE
    /\ reply_to' = None
    /\ exc' = OK
    /\ stats0' = stats
    /\ nsends' = 0
    /\ last_send' = NoSend
    /\ slept' = 0
    /\ ndownloads' = 0
    /\ UNCHANGED <<message_map, stats, dest, downloads, album_sent, album_msgs,
                   processed_messages_ids, seen_album_ids, history, ANONYMIZE_FORWARDS,
                   messages, connected, calls, configVars, mainVars>>

\* process_message has returned: progress report, next iteration
Progress ==
    /\ pc = "returned"
    /\ pc' = "loop"
    /\ i' = IF redo THEN i ELSE i + 1
    /\ redo' = FALSE
    /\ message' = BlankMessage(None)
    /\ depth' = 0
    /\ text' = <<>>
    /\ file' = FALSE
    /\ reply_to' = None
    /\ exc' = OK
    /\ stats0' = stats
    /\ nsends' = 0
    /\ last_send' = NoSend
    /\ slept' = 0
    /\ ndownloads' = 0
    /\ UNCHANGED <<message_map, stats, dest, downloads, album_sent, album_msgs,
                   processed_messages_ids, seen_album_ids, history, ANONYMIZE_FORWARDS,
                   messages, connected, outcome, calls, configVars, mainVars>>

\* faulty variant: the cleanup follows the loop instead of standing in a
\* finally clause, so it runs only when start_cloning returns
FinallyOnReturnOnly ==
    /\ pc = "finally"
    /\ IF outcome = "stats"
       THEN /\ \E left \in 0..downloads : downloads' = left /\ unremovable' = left
            /\ connected' = FALSE
       ELSE UNCHANGED <<downloads, unremovable, connected>>
    /\ pc' = "done"
    /\ UNCHANGED <<message_map, stats, dest, exc, localVars, sendGhosts, callVars,
                   history, ANONYMIZE_FORWARDS, messages, i, outcome, calls, redo, stats0,
                   configVars, reported, exit_code>>

\* the finally clause: os.remove is called on every file of downloads/ (a
\* failing removal is passed over and leaves its file), the client is disconnected
Finally ==
    /\ pc = "finally"
    /\ \E left \in 0..downloads : downloads' = left /\ unremovable' = left
    /\ connected' = FALSE
    /\ pc' = "done"
    /\ UNCHANGED <<message_map, stats, dest, exc, localVars, sendGhosts, callVars,
                   history, ANONYMIZE_FORWARDS, messages, i, outcome, calls, redo, stats0,
                   configVars, reported, exit_code>>

\* ------------------------------------------------------- process_message
\* history of one client.send_message call
Attempt(site, txt, f, rt, out) ==
    /\ nsends' = nsends + 1
    /\ last_send' = [site |-> site, text |-> txt, file |-> f, reply_to |-> rt, out |-> out]
    /\ album_sent' = IF message.grouped_id # None /\ nsends = 0
                     THEN [album_sent EXCEPT ![message.grouped_id] = @ + 1]
                     ELSE album_sent

\* the except clauses at the end of process_message, for an exception that
\* no inner handler caught
Handle(e, st) ==
    IF OuterClause(e) \in {"flood", "slowmode"}
    THEN stats' = st /\ pc' = "sleep" /\ exc' = e
    ELSE stats' = Inc(st, "failed") /\ pc' = "returned" /\ exc' = exc

\* the platform has created the destination message: store the mapping, count
\* the clone, remove the downloaded file, return
Success(st) ==
    /\ message_map' = (message.id :> DestId(Len(dest) + 1)) @@ message_map
    /\ dest' = Append(dest, message.id)
    /\ IF file
       THEN \E removed \in BOOLEAN :
              IF removed
              THEN /\ stats' = Inc(st, "cloned")
                   /\ downloads' = downloads - 1
                   /\ pc' = "returned"
                   /\ exc' = exc
              ELSE downloads' = downloads /\ Handle(OSError, Inc(st, "cloned"))
       ELSE /\ stats' = Inc(st, "cloned")
            /\ downloads' = downloads
            /\ pc' = "returned"
            /\ exc' = exc

\* faulty variant: the native branch does not return after its bookkeeping
NativeSuccessFallsThrough(st) ==
    /\ message_map' = (message.id :> DestId(Len(dest) + 1)) @@ message_map
    /\ dest' = Append(dest, message.id)
    /\ stats' = Inc(st, "cloned")
    /\ pc' = "send_regular"
    /\ UNCHANGED <<downloads, exc>>

\* a native poll or contact send succeeded: store the mapping, count, return
NativeSuccess(st) ==
    /\ message_map' = (message.id :> DestId(Len(dest) + 1)) @@ message_map
    /\ dest' = Append(dest, message.id)
    /\ stats' = Inc(st, "cloned")
    /\ pc' = "returned"
    /\ UNCHANGED <<downloads, exc>>

\* reply resolution, then the choice between the forward branch and the
\* regular send
Dispatch(m, st) ==
    /\ reply_to' = ResolveReply(m.reply_to)
    /\ IF m.fwd_from # "none" /\ ~ANONYMIZE_FORWARDS
       THEN /\ stats' = Inc(st, "forwards")
            /\ pc' = IF m.fwd_from = "from_id" THEN "get_entity" ELSE "send_forward_unknown"
       ELSE /\ stats' = st
            /\ pc' = "send_regular"

\* entry of process_message up to its first await: duplicate guard, album
\* guard, text (the transform toggles are off), choice of the media branch.
\* The fields of the message are read here for the first time.
Entry ==
    /\ pc = "entry"
    /\ IF AlreadyProcessed(message.id)
       THEN /\ pc' = "returned"
            /\ UNCHANGED <<message_map, stats, dest, downloads, exc, localVars, callVars>>
       ELSE /\ processed_messages_ids' = processed_messages_ids \cup {message.id}
            /\ \E m \in Shapes(message.id) :
                 /\ message' = m
                 /\ album_msgs' = IF m.grouped_id # None
                                  THEN [album_msgs EXCEPT ![m.grouped_id] = @ + 1]
                                  ELSE album_msgs
                 /\ IF AlbumSkip(m.grouped_id)
                    THEN /\ stats' = Inc(stats, "skipped")
                         /\ pc' = "returned"
                         /\ UNCHANGED <<seen_album_ids, localVars>>
                    ELSE /\ seen_album_ids' = SeenAfter(m.grouped_id)
                         /\ text' = <<m.text>>
                         /\ file' = FALSE
                         /\ CASE m.media \in {"photo", "document"} ->
                                   pc' = "download" /\ UNCHANGED <<stats, reply_to>>
                              [] m.media = "poll" ->
                                   /\ stats' = Inc(stats, "polls")
                                   /\ pc' = "send_poll"
                                   /\ reply_to' = reply_to
                              [] m.media = "contact" ->
                                   /\ stats' = Inc(stats, "contacts")
                                   /\ pc' = "send_contact"
                                   /\ reply_to' = reply_to
                              [] OTHER -> Dispatch(m, stats)
            /\ UNCHANGED <<message_map, dest, downloads, exc, depth, slept, ndownloads>>
    /\ UNCHANGED <<sendGhosts, runVars>>

\* await message.download_media(), then the content-kind counter
DownloadMedia ==
    /\ pc = "download"
    /\ ndownloads' = ndownloads + 1
    /\ \E r \in {"path", "none", "error"} :
          LET kind == IF message.media = "photo" THEN "photos"
                      ELSE ClassifyDocument(message.attributes)
              counted == IF r = "error" \/ kind = "" THEN stats ELSE Inc(stats, kind)
          IN /\ file' = (r = "path")
             /\ downloads' = IF r = "path" THEN downloads + 1 ELSE downloads
             /\ Dispatch(message, counted)
    /\ UNCHANGED <<message_map, dest, exc, text, sendGhosts, runVars, message, depth,
                   processed_messages_ids, seen_album_ids, slept, album_msgs>>

\* the native poll send; on any exception the poll is flattened into the text
SendPoll ==
    /\ pc = "send_poll"
    /\ \E out \in SendOutcomes :
          /\ Attempt("poll", IF message.text # "" THEN text ELSE <<PollQuestion>>,
                     FALSE, None, out)
          /\ IF out = OK
             THEN NativeSuccess(stats) /\ UNCHANGED localVars
             ELSE /\ text' = PollFallbackText(text, message.answers)
                  /\ Dispatch(message, stats)
                  /\ UNCHANGED <<message_map, dest, downloads, exc, file>>
    /\ UNCHANGED <<runVars, callVars>>

\* the native contact send; on any exception the contact is flattened into the text
SendContact ==
    /\ pc = "send_contact"
    /\ \E out \in SendOutcomes :
          /\ Attempt("contact", text, FALSE, None, out)
          /\ IF out = OK
             THEN NativeSuccess(stats) /\ UNCHANGED localVars
             ELSE /\ text' = ContactFallbackText(text)
                  /\ Dispatch(message, stats)
                  /\ UNCHANGED <<message_map, dest, downloads, exc, file>>
    /\ UNCHANGED <<runVars, callVars>>

\* await client.get_entity(fwd_from.from_id)
GetEntity ==
    /\ pc = "get_entity"
    /\ \E found \in BOOLEAN :
          pc' = IF found THEN "send_forward" ELSE "send_forward_fallback"
    /\ UNCHANGED <<message_map, stats, dest, downloads, exc, localVars, sendGhosts,
                   runVars, callVars>>

\* the attributed forward send
SendForward ==
    /\ pc = "send_forward"
    /\ \E out \in SendOutcomes :
          /\ Attempt("forward", text, file, reply_to, out)
          /\ IF out = OK
             THEN Success(stats)
             ELSE pc' = "send_forward_fallback"
                  /\ UNCHANGED <<message_map, stats, dest, downloads, exc>>
    /\ UNCHANGED <<localVars, runVars, callVars>>

\* the annotated send in the handler of the attributed forward
SendForwardFallback ==
    /\ pc = "send_forward_fallback"
    /\ \E out \in SendOutcomes :
          /\ Attempt("forward_fallback", ForwardedText(text), file, reply_to, out)
          /\ IF out = OK
             THEN Success(stats)
             ELSE pc' = "send_forward_last"
                  /\ UNCHANGED <<message_map, stats, dest, downloads, exc>>
    /\ UNCHANGED <<localVars, runVars, callVars>>

\* the annotated send of a forward without from_id
SendForwardUnknown ==
    /\ pc = "send_forward_unknown"
    /\ \E out \in SendOutcomes :
          /\ Attempt("forward_unknown", ForwardedText(text), file, reply_to, out)
          /\ IF out = OK
             THEN Success(stats)
             ELSE pc' = "send_forward_last"
                  /\ UNCHANGED <<message_map, stats, dest, downloads, exc>>
    /\ UNCHANGED <<localVars, runVars, callVars>>

\* the annotated send in the handler of the forward branch; its exceptions
\* reach the except clauses of process_message
SendForwardLast ==
    /\ pc = "send_forward_last"
    /\ \E out \in SendOutcomes :
          /\ Attempt("forward_last", ForwardedText(text), file, reply_to, out)
          /\ IF out = OK
             THEN Success(stats)
             ELSE Handle(out, stats) /\ UNCHANGED <<message_map, dest, downloads>>
    /\ UNCHANGED <<localVars, runVars, callVars>>

\* the regular send; when it raises with no file, new_message is unbound at
\* the bookkeeping
SendRegular ==
    /\ pc = "send_regular"
    /\ \E out \in SendOutcomes :
          /\ Attempt("regular", text, file, reply_to, out)
          /\ IF out = OK
             THEN Success(IF ~file /\ message.fwd_from = "none"
                          THEN Inc(stats, "text_only") ELSE stats)
             ELSE IF file
                  THEN pc' = "send_media_dropped"
                       /\ UNCHANGED <<message_map, stats, dest, downloads, exc>>
                  ELSE Handle(UnboundLocalError, stats)
                       /\ UNCHANGED <<message_map, dest, downloads>>
    /\ UNCHANGED <<localVars, runVars, callVars>>

\* the retry without media
SendMediaDropped ==
    /\ pc = "send_media_dropped"
    /\ \E out \in SendOutcomes :
          /\ Attempt("media_dropped", MediaDroppedText(text), FALSE, reply_to, out)
          /\ IF out = OK
             THEN Success(stats)
             ELSE /\ stats' = Inc(stats, "failed")
                  /\ pc' = "returned"
                  /\ UNCHANGED <<message_map, dest, downloads, exc>>
    /\ UNCHANGED <<localVars, runVars, callVars>>

\* faulty variant: after the sleep the send that raised is repeated, as often
\* as the platform raises the signal
SleepThenResend ==
    /\ pc = "sleep"
    /\ slept' = slept + exc.seconds
    /\ exc' = OK
    /\ depth' = depth
    /\ pc' = "send_forward_last"
    /\ UNCHANGED <<message_map, stats, dest, downloads, localVars, sendGhosts, runVars,
                   message, processed_messages_ids, seen_album_ids, ndownloads, album_msgs>>

\* the FloodWaitError / SlowModeWaitError clause: sleep e.seconds, then call
\* process_message(message) again and return its result
Sleep ==
    /\ pc = "sleep"
    /\ slept' = slept + exc.seconds
    /\ exc' = OK
    /\ depth' = depth + 1
    /\ pc' = "entry"
    /\ UNCHANGED <<message_map, stats, dest, downloads, localVars, sendGhosts, runVars,
                   message, processed_messages_ids, seen_album_ids, ndownloads, album_msgs>>

\* a caller invokes process_message again with a message it has dispatched
Redispatch ==
    /\ pc = "loop"
    /\ \E j \in 1..(i - 1) :
          /\ j <= Len(messages)
          /\ message' = BlankMessage(messages[j])
    /\ redo' = TRUE
    /\ pc' = "entry"
    /\ UNCHANGED <<message_map, stats, dest, downloads, exc, localVars, sendGhosts,
                   depth, processed_messages_ids, seen_album_ids, slept, ndownloads,
                   album_msgs, history, ANONYMIZE_FORWARDS, messages, i, connected, outcome,
                   calls, stats0, configVars, mainVars>>


\* ------------------------------------------------------ text transformer
\* A text of the transformer is the sequence of its characters.
MaxPieces == 3      \* a message text is made of at most MaxPieces pieces

Whitespace == {" ", "\n", "\t"}

\* the pieces message texts are made of
TextPieces ==
    { <<" ">>,
      <<"\n">>,
      <<"O", "L", "D">>,
      <<"n", "o", "w">>,
      <<"h", "t", "t", "p", "s", ":", "/", "/", "x", ".", "c", "o">>,
      <<"t", ".", "m", "e", "/", "c">> }

RECURSIVE TextsUpTo(_)
TextsUpTo(n) ==
    IF n = 0 THEN {<<>>}
    ELSE LET shorter == TextsUpTo(n - 1)
         IN shorter \cup {p \o t : p \in TextPieces, t \in shorter}

\* "Visit https://x.co now: OLD"
ExampleText ==
    <<"V", "i", "s", "i", "t", " ", "h", "t", "t", "p", "s", ":", "/", "/", "x", ".", "c", "o",
      " ", "n", "o", "w", ":", " ", "O", "L", "D">>

\* "Visit now: NEW"
ExampleResult ==
    <<"V", "i", "s", "i", "t", " ", "n", "o", "w", ":", " ", "N", "E", "W">>

MessageTexts == TextsUpTo(MaxPieces) \cup {ExampleText}

\* TEXT_REPLACEMENTS parsed into text_replacements_dict, in insertion order
ReplacementLists ==
    { <<>>,
      << [original |-> <<"O", "L", "D">>, replacement |-> <<"N", "E", "W">>] >>,
      << [original |-> <<"O", "L", "D">>, replacement |-> <<"n", "o", "w">>],
         [original |-> <<"n", "o", "w">>, replacement |-> <<"t", ".", "m", "e", "/", "c">>] >> }

\* the source conversation: a channel with a username, a channel without one,
\* a basic group, a user
SourceKinds == {"Channel", "ChannelNoUsername", "Chat", "User"}

StartsWith(s, p) == Len(p) <= Len(s) /\ SubSeq(s, 1, Len(p)) = p

\* str.replace(original, replacement): every occurrence, left to right
RECURSIVE StrReplace(_, _, _)
StrReplace(s, original, replacement) ==
    IF s = <<>> THEN <<>>
    ELSE IF StartsWith(s, original)
         THEN replacement \o StrReplace(SubSeq(s, Len(original) + 1, Len(s)), original,
                                        replacement)
         ELSE <<Head(s)>> \o StrReplace(Tail(s), original, replacement)

\* the loop over text_replacements_dict.items()
RECURSIVE ApplyReplacements(_, _)
ApplyReplacements(s, pairs) ==
    IF pairs = <<>> THEN s
    ELSE ApplyReplacements(StrReplace(s, Head(pairs).original, Head(pairs).replacement),
                           Tail(pairs))

\* the rest of s after its leading run of non-whitespace characters
RECURSIVE SkipNonSpace(_)
SkipNonSpace(s) ==
    IF s = <<>> \/ Head(s) \in Whitespace THEN s ELSE SkipNonSpace(Tail(s))

\* the prefixes of the patterns (https?://\S+) and (t\.me/\S+)
UrlPrefixes ==
    { <<"h", "t", "t", "p", ":", "/", "/">>, <<"h", "t", "t", "p", "s", ":", "/", "/">> }

TmePrefixes == { <<"t", ".", "m", "e", "/">> }

\* the pattern prefix \S+ matches at the start of s
MatchesAt(s, prefixes) ==
    \E p \in prefixes :
        StartsWith(s, p) /\ Len(s) > Len(p) /\ s[Len(p) + 1] \notin Whitespace

\* re.sub(pattern, '', s) for a pattern prefix \S+
RECURSIVE RemovePattern(_, _)
RemovePattern(s, prefixes) ==
    IF s = <<>> THEN <<>>
    ELSE IF MatchesAt(s, prefixes)
         THEN RemovePattern(SkipNonSpace(s), prefixes)
         ELSE <<Head(s)>> \o RemovePattern(Tail(s), prefixes)

\* faulty variant: repeated spaces are kept
CollapseSpacesNone(s) == s

\* re.sub(r' +', ' ', s)
RECURSIVE CollapseSpaces(_)
CollapseSpaces(s) ==
    IF Len(s) < 2 THEN s
    ELSE IF s[1] = " " /\ s[2] = " " THEN CollapseSpaces(Tail(s))
         ELSE <<Head(s)>> \o CollapseSpaces(Tail(s))

\* str.strip()
RECURSIVE LStrip(_)
LStrip(s) == IF s # <<>> /\ Head(s) \in Whitespace THEN LStrip(Tail(s)) ELSE s

RECURSIVE RStrip(_)
RStrip(s) ==
    IF s # <<>> /\ s[Len(s)] \in Whitespace THEN RStrip(SubSeq(s, 1, Len(s) - 1)) ELSE s

Strip(s) == RStrip(LStrip(s))

\* "\n\n[Original post](https://t.me/src/1) from [Src](https://t.me/src)": the
\* footer of message 1 of the channel Src with username src
SourceLinkFooter ==
    <<"\n", "\n", "[", "O", "r", "i", "g", "i", "n", "a", "l", " ", "p", "o", "s", "t", "]",
      "(", "h", "t", "t", "p", "s", ":", "/", "/", "t", ".", "m", "e", "/", "s", "r", "c", "/",
      "1", ")", " ", "f", "r", "o", "m", " ", "[", "S", "r", "c", "]", "(", "h", "t", "t", "p",
      "s", ":", "/", "/", "t", ".", "m", "e", "/", "s", "r", "c", ")">>

\* the transformer on its own: process_message at `text = message.text or ""`
\* for message 1 with any text, under any configuration
InitTransform ==
    /\ pc = "t_replace"
    /\ history = [id \in SourceIds |-> "message"]
    /\ ANONYMIZE_FORWARDS = FALSE
    /\ messages = <<1>>
    /\ i = 1
    /\ \E t \in MessageTexts :
          /\ message = [BlankMessage(1) EXCEPT !.text = t, !.media = "none"]
          /\ text = t
    /\ depth = 0
    /\ message_map = [x \in {} |-> None]
    /\ processed_messages_ids = {1}
    /\ seen_album_ids = {}
    /\ stats = Inc(InitStats, "total")
    /\ file = FALSE
    /\ reply_to = None
    /\ exc = OK
    /\ downloads = 0
    /\ connected = TRUE
    /\ outcome = ""
    /\ REPLACE_TEXT \in BOOLEAN
    /\ REMOVE_URLS \in BOOLEAN
    /\ ADD_SOURCE_LINK \in BOOLEAN
    /\ text_replacements_dict \in ReplacementLists
    /\ source_entity \in SourceKinds
    /\ reported = FALSE
    /\ exit_code = -1
    /\ unremovable = 0
    /\ dest = <<>>
    /\ calls = <<1>>
    /\ redo = FALSE
    /\ stats0 = Inc(InitStats, "total")
    /\ nsends = 0
    /\ last_send = NoSend
    /\ slept = 0
    /\ ndownloads = 0
    /\ album_msgs = [g \in AlbumIds |-> 0]
    /\ album_sent = [g \in AlbumIds |-> 0]

\* everything but the text and the position
transformFrame ==
    <<message_map, stats, dest, downloads, exc, file, reply_to, sendGhosts, runVars, callVars>>

\* apply text replacements
TransformReplace ==
    /\ pc = "t_replace"
    /\ text' = IF REPLACE_TEXT /\ text # <<>>
               THEN ApplyReplacements(text, text_replacements_dict)
               ELSE text
    /\ pc' = "t_urls"
    /\ UNCHANGED transformFrame

\* remove URLs if requested
TransformUrls ==
    /\ pc = "t_urls"
    /\ text' = IF REMOVE_URLS /\ text # <<>>
               THEN Strip(CollapseSpaces(
                        RemovePattern(RemovePattern(text, UrlPrefixes), TmePrefixes)))
               ELSE text
    /\ pc' = "t_footer"
    /\ UNCHANGED transformFrame

\* add source link if requested
TransformFooter ==
    /\ pc = "t_footer"
    /\ text' = IF ADD_SOURCE_LINK /\ source_entity \in {"Channel", "ChannelNoUsername", "Chat"}
               THEN IF source_entity = "Channel" THEN text \o SourceLinkFooter ELSE text
               ELSE text
    /\ pc' = "t_done"
    /\ UNCHANGED transformFrame

\* the positions inside process_message and at its return to the driver loop
InProcessMessage ==
    pc \in {"entry", "download", "send_poll", "send_contact", "get_entity", "send_forward",
            "send_forward_fallback", "send_forward_unknown", "send_forward_last",
            "send_regular", "send_media_dropped", "sleep", "returned"}

\* the user interrupts the run (SIGINT) while start_cloning is connecting,
\* fetching or in the driver loop: KeyboardInterrupt is raised in the running
\* code, or the event loop cancels the task and CancelledError is raised at the
\* pending await. Neither is an Exception, so no handler of process_message or
\* of the loop catches it: the frames are unwound to the finally clause.
Interrupt ==
    /\ pc \in {"start", "get_messages", "loop"} \/ InProcessMessage
    /\ outcome' \in {"interrupted", "cancelled"}
    /\ pc' = "finally"
    /\ message' = BlankMessage(None)
    /\ depth' = 0
    /\ text' = <<>>
    /\ file' = FALSE
    /\ reply_to' = None
    /\ exc' = OK
    /\ redo' = FALSE
    /\ stats0' = stats
    /\ nsends' = 0
    /\ last_send' = NoSend
    /\ slept' = 0
    /\ ndownloads' = 0
    /\ UNCHANGED <<message_map, stats, dest, downloads, album_sent, album_msgs,
                   processed_messages_ids, seen_album_ids, history, ANONYMIZE_FORWARDS,
                   messages, i, connected, calls, configVars, mainVars>>

\* faulty variant: a critical error is reported but the success code is returned
ExitCodeCriticalAsSuccess(how) ==
    CASE how \in {"stats", "raised"} -> 0
      [] how \in {"interrupted", "cancelled"} -> 130

\* the exit code of the process: main() returns 0, or 130 from its
\* KeyboardInterrupt clause, or 1 from its Exception clause; a CancelledError
\* leaves main() and asyncio.run raises KeyboardInterrupt to the module's clause
ExitCode(how) ==
    CASE how = "stats" -> 0
      [] how = "raised" -> 1
      [] how = "interrupted" -> 130
      [] how = "cancelled" -> 130

\* main() after start_cloning has ended: the report is printed when
\* start_cloning returned the statistics; then the process exits
Main ==
    /\ pc = "done"
    /\ reported' = (outcome = "stats")
    /\ exit_code' = ExitCode(outcome)
    /\ pc' = "exited"
    /\ UNCHANGED <<message_map, stats, dest, downloads, exc, localVars, sendGhosts, callVars,
                   history, ANONYMIZE_FORWARDS, messages, i, connected, outcome, calls, redo,
                   stats0, configVars, unremovable>>

\* ------------------------------------------------------- specifications
Next ==
    \/ Connect
    \/ GetMessages
    \/ LoopStep
    \/ Progress
    \/ Finally
    \/ Entry
    \/ DownloadMedia
    \/ SendPoll
    \/ SendContact
    \/ GetEntity
    \/ SendForward
    \/ SendForwardFallback
    \/ SendForwardUnknown
    \/ SendForwardLast
    \/ SendRegular
    \/ SendMediaDropped
    \/ Sleep

Spec == Init /\ [][Next]_vars

\* the run of Spec with a caller that may repeat a dispatch
NextTwice == Next \/ Redispatch

SpecTwice == Init /\ [][NextTwice]_vars

\* start_cloning is one task: every client call it awaits returns or raises, and
\* the task then goes on
SpecFair == Spec /\ WF_vars(Next)

\* the whole process: main() around start_cloning, with a user who may interrupt
NextMain == Next \/ Interrupt \/ Main

SpecMain == Init /\ [][NextMain]_vars

\* the text transformer applied to every text of MessageTexts
NextTransform == TransformReplace \/ TransformUrls \/ TransformFooter

SpecTransform == InitTransform /\ [][NextTransform]_vars

\* ------------------------------------------------------------ properties
Contains(txt, line) == \E k \in 1..Len(txt) : txt[k] = line

\* number of destination messages created for a source id
ClonesOf(id) == Cardinality({k \in 1..Len(dest) : dest[k] = id})

\* the destination id of the clone of source id r, None when r has no clone
ExpectedReply(r) ==
    IF r # None /\ \E k \in 1..Len(dest) : dest[k] = r
    THEN DestId(CHOOSE k \in 1..Len(dest) : dest[k] = r)
    ELSE None

RECURSIVE SkipsExpected(_)
SkipsExpected(albums) ==
    IF albums = {} THEN 0
    ELSE LET g == CHOOSE x \in albums : TRUE
         IN (IF album_msgs[g] >= 1 THEN album_msgs[g] - 1 ELSE 0)
            + SkipsExpected(albums \ {g})

\* C1: when a send of a message has raised a rate-limit signal with wait w and
\* the platform has rejected no send after it, process_message returns after
\* suspending at least w, with exactly one clone of the message, cloned
\* incremented by one and failed unchanged.
C1_RateLimitRetryClones ==
    (pc = "returned" /\ ~redo /\ last_send.out \in RateLimitErrors) =>
        /\ slept >= last_send.out.seconds
        /\ ClonesOf(message.id) = 1
        /\ message.id \in DOMAIN message_map
        /\ stats["cloned"] = stats0["cloned"] + 1
        /\ stats["failed"] = stats0["failed"]

\* C2: at every send site, after a send has raised a rate-limit signal with
\* wait w the engine is at the suspension until it has suspended for w: it makes
\* no fallback send and counts no failure first.
C2_RateLimitAlwaysSuspends ==
    (last_send.out \in RateLimitErrors /\ slept < last_send.out.seconds) => pc = "sleep"

\* C3: every send for a message that declares a reply to source id M carries as
\* reply target the destination id of M's clone if M was cloned earlier in the
\* run, and none otherwise.
C3_ReplyTargetOnEverySend ==
    (nsends > 0) => last_send.reply_to = ExpectedReply(message.reply_to)

\* C4: destination messages are created in the order of their source ids
\* (oldest first), and while the sends of a message are under way no message
\* with a later source id has been created.
C4_DestinationOrder ==
    /\ \A a, b \in 1..Len(dest) : a < b => dest[a] < dest[b]
    /\ (InProcessMessage /\ message.id # None) =>
           \A k \in 1..Len(dest) : dest[k] <= message.id

C4_Witness ==
    pc = "done" /\ Len(dest) = 2 /\ dest[1] = 1 /\ dest[2] = 2

\* C5: a call of process_message with a source id that is already in
\* processed_messages_ids returns without a download or a send and leaves
\* message_map, seen_album_ids, the statistics and the destination unchanged.
C5_SecondCallIsNoOp ==
    [][(pc = "entry" /\ message.id \in processed_messages_ids) =>
          /\ pc' = "returned"
          /\ UNCHANGED <<message_map, seen_album_ids, stats, dest, nsends, ndownloads,
                         downloads, processed_messages_ids>>]_vars

C5_Witness ==
    /\ pc = "returned" /\ redo
    /\ message.id \in DOMAIN message_map
    /\ nsends = 0 /\ ndownloads = 0

\* C6: of the messages sharing an album id, exactly one, the first processed,
\* reaches a send attempt; every other one increments skipped by one and makes no
\* download and no send.
C6_AlbumCollapse ==
    /\ \A g \in AlbumIds :
          (pc \in {"returned", "loop", "finally", "done"} /\ album_msgs[g] >= 1) =>
              album_sent[g] = 1
    /\ (pc \in {"returned", "loop", "finally", "done"}) =>
          stats["skipped"] = SkipsExpected(AlbumIds)
    /\ (pc = "returned" /\ stats["skipped"] > stats0["skipped"]) =>
          /\ stats["skipped"] = stats0["skipped"] + 1
          /\ nsends = 0 /\ ndownloads = 0
          /\ album_msgs[message.grouped_id] >= 2

C6_Witness ==
    /\ pc = "returned"
    /\ message.grouped_id \in AlbumIds
    /\ album_msgs[message.grouped_id] = 2
    /\ album_sent[message.grouped_id] = 1
    /\ stats["skipped"] = 1

\* C7: after the native poll send of a poll message has failed the engine goes
\* on to a send whose text contains the poll question and every option; when
\* such a send succeeds the message is mapped, cloned is incremented by one and
\* failed is not incremented.
C7_PollFallback ==
    (message.media = "poll" /\ nsends >= 1) =>
        /\ (last_send.site = "poll" /\ last_send.out # OK) =>
               /\ pc \in {"send_regular", "get_entity", "send_forward",
                          "send_forward_fallback", "send_forward_unknown"}
               /\ (message.fwd_from = "none" \/ ANONYMIZE_FORWARDS) => pc = "send_regular"
        /\ (last_send.site # "poll") =>
               /\ Contains(last_send.text, PollQuestion)
               /\ \A k \in 1..Len(message.answers) :
                      Contains(last_send.text, message.answers[k])
        /\ (last_send.site # "poll" /\ last_send.out = OK) =>
               /\ pc = "returned"
               /\ message.id \in DOMAIN message_map
               /\ stats["cloned"] = stats0["cloned"] + 1
               /\ stats["failed"] = stats0["failed"]

C7_Witness ==
    /\ pc = "returned"
    /\ message.media = "poll" /\ Len(message.answers) = 2
    /\ nsends = 2 /\ last_send.site = "regular" /\ last_send.out = OK
    /\ stats["cloned"] = stats0["cloned"] + 1

\* C8: when the native contact send, the forward sender's entity lookup or the
\* attributed forward send has failed and a later send of the message succeeds,
\* that send carries the flattened contact, respectively the [Forwarded message]
\* annotation, and the message is counted cloned and not failed.
C8_ContactForwardFallbackClones ==
    (pc = "returned" /\ nsends >= 1 /\ last_send.out = OK) =>
        /\ (message.media = "contact" /\ last_send.site # "contact") =>
               /\ Contains(last_send.text, Contact.first_name)
               /\ Contains(last_send.text, Contact.phone_number)
               /\ stats["cloned"] = stats0["cloned"] + 1
               /\ stats["failed"] = stats0["failed"]
        /\ (last_send.site \in {"forward_fallback", "forward_last"}) =>
               /\ Contains(last_send.text, "[Forwarded message]")
               /\ stats["cloned"] = stats0["cloned"] + 1
               /\ stats["failed"] = stats0["failed"]

\* C9: when a send of a message has raised a permission error, the message has
\* returned failed with that send its last: failed incremented by one, no mapping.
C9_PermissionIsTerminal ==
    (last_send.out.type \in {"ChatWriteForbiddenError", "ChatAdminRequiredError"}) =>
        /\ pc = "returned"
        /\ stats["failed"] = stats0["failed"] + 1
        /\ message.id \notin DOMAIN message_map

\* C10: the driver calls process_message once for each fetched message, in list
\* order; a failed message does not end the run, which raises only before the
\* loop and completes only after the last message was dispatched.
C10_FailureDoesNotAbort ==
    /\ Len(calls) <= Len(messages)
    /\ calls = SubSeq(messages, 1, Len(calls))
    /\ (pc = "loop") => Len(calls) = i - 1
    /\ (InProcessMessage) => Len(calls) = i
    /\ (outcome = "stats") => calls = messages
    /\ (outcome = "raised") => calls = <<>>

C10_Witness ==
    pc = "entry" /\ i = 2 /\ stats["failed"] = 1 /\ calls = <<1, 2>>

\* C11 (as claimed): when start_cloning has ended, on any path, downloads/ holds
\* no file and the client is disconnected.
C11_CleanupRemovesAll ==
    (pc \in {"done", "exited"}) => downloads = 0 /\ ~connected

\* C11 (amended): when start_cloning has ended, on any path, the finally clause
\* has run: the only files left in downloads/ are those whose removal failed,
\* and the client is disconnected.
C11_CleanupOnEveryPath ==
    (pc \in {"done", "exited"}) => downloads = unremovable /\ ~connected

C11_Witness ==
    /\ pc = "done" /\ outcome \in {"interrupted", "cancelled"}
    /\ calls # <<>> /\ stats["failed"] = 1
    /\ downloads = 1 /\ unremovable = 1 /\ ~connected

\* C12: when the process has ended after get_messages returned a non-empty list
\* (the driver loop was reached), the final report was printed.
C12_ReportAfterLoop ==
    (pc = "exited" /\ messages # <<>>) => reported

\* C13: the exit code is 0 exactly when start_cloning returned (the run
\* completed), 1 when an Exception ended it (a failed connection, entity lookup
\* or fetch) and 130 when a user interrupt ended it.
C13_ExitCodes ==
    (pc = "exited") =>
        /\ (exit_code = 0) <=> (outcome = "stats")
        /\ (outcome = "raised") => exit_code = 1
        /\ (outcome \in {"interrupted", "cancelled"}) => exit_code = 130
        /\ exit_code \in {0, 1, 130}

C13_Witness ==
    pc = "exited" /\ exit_code = 1 /\ outcome = "raised" /\ connected = FALSE /\ messages = <<>>

\* a match of one of the two link patterns somewhere in s
HasLink(s) ==
    \E k \in 1..Len(s) : MatchesAt(SubSeq(s, k, Len(s)), UrlPrefixes \cup TmePrefixes)

EndsWith(s, suffix) ==
    Len(suffix) <= Len(s) /\ SubSeq(s, Len(s) - Len(suffix) + 1, Len(s)) = suffix

\* the three steps in the order replacements, URL removal, footer; the first
\* two skipped for an empty text, the footer skipped for an empty text when
\* footer_needs_text
TransformedAs(t, footer_needs_text) ==
    LET r == IF REPLACE_TEXT /\ t # <<>>
             THEN ApplyReplacements(t, text_replacements_dict) ELSE t
        u == IF REMOVE_URLS /\ r # <<>>
             THEN Strip(CollapseSpaces(RemovePattern(RemovePattern(r, UrlPrefixes),
                                                     TmePrefixes)))
             ELSE r
    IN IF ADD_SOURCE_LINK /\ source_entity = "Channel" /\ (footer_needs_text => u # <<>>)
       THEN u \o SourceLinkFooter
       ELSE u

\* the configuration {removeUrls: true, replacements: {"OLD": "NEW"}}
ExampleConfig ==
    /\ REPLACE_TEXT /\ REMOVE_URLS /\ ~ADD_SOURCE_LINK
    /\ Len(text_replacements_dict) = 1
    /\ text_replacements_dict[1].replacement = <<"N", "E", "W">>

\* C14 (as claimed): the transformed text is the result of the replacements, then
\* URL removal with whitespace collapse and trim, then the footer, each of the
\* three steps skipped when its toggle is off or the text is empty.
C14_TransformAsClaimed ==
    (pc = "t_done") => text = TransformedAs(message.text, TRUE)

\* C14 (amended): as claimed, except that the footer step is not skipped for an
\* empty text. Stated also by its effects: the example, the identity when every
\* toggle is off, no link, no repeated space and no outer whitespace after URL
\* removal, the footer at the end for a channel with a username.
C14_TransformOrder ==
    (pc = "t_done") =>
        /\ text = TransformedAs(message.text, FALSE)
        /\ (message.text = ExampleText /\ ExampleConfig) => text = ExampleResult
        /\ (~REPLACE_TEXT /\ ~REMOVE_URLS /\ ~ADD_SOURCE_LINK) => text = message.text
        /\ (message.text = <<>> /\ ~ADD_SOURCE_LINK) => text = <<>>
        /\ (REMOVE_URLS /\ ~ADD_SOURCE_LINK) =>
               /\ ~HasLink(text)
               /\ \A k \in 1..(Len(text) - 1) : ~(text[k] = " " /\ text[k + 1] = " ")
               /\ text # <<>> => (text[1] \notin Whitespace /\ text[Len(text)] \notin Whitespace)
        /\ (ADD_SOURCE_LINK /\ source_entity = "Channel") => EndsWith(text, SourceLinkFooter)
        /\ (ADD_SOURCE_LINK /\ source_entity # "Channel") => ~EndsWith(text, SourceLinkFooter)

C14_Witness ==
    /\ pc = "t_done"
    /\ message.text = ExampleText /\ ExampleConfig
    /\ text = ExampleResult

\* C15: no source id has more than one destination message, whatever fallback
\* branches and re-entries its dispatch went through, and once a send of a
\* message has succeeded process_message has returned.
C15_AtMostOneClone ==
    /\ \A id \in SourceIds : ClonesOf(id) <= 1
    /\ (nsends > 0 /\ last_send.out = OK) => pc = "returned"

C15_Witness ==
    /\ pc = "returned"
    /\ nsends = 4 /\ last_send.site = "forward_last" /\ last_send.out = OK
    /\ ClonesOf(message.id) = 1

\* C16: when process_message has returned for a message whose media was
\* fetched and the message has no clone, the last send was a text-only send
\* that the platform rejected: no message is lost while only sends with the
\* media attached were tried.
C16_MediaFailureKeepsText ==
    (pc = "returned" /\ ~redo /\ ndownloads > 0 /\ message.id \notin DOMAIN message_map) =>
        nsends > 0 /\ ~last_send.file /\ last_send.out # OK

\* C17: in the generic send path a failed send with media attached is followed
\* by exactly one more send, without media and annotated; when that send fails
\* too, or the first send failed without media, the message is failed: failed is
\* incremented by one and the message has no entry in message_map.
C17_GenericSendRetry ==
    /\ (last_send.site = "regular" /\ last_send.out # OK /\ last_send.file) =>
           pc = "send_media_dropped"
    /\ (last_send.site = "regular" /\ last_send.out # OK /\ ~last_send.file) =>
           /\ pc = "returned"
           /\ stats["failed"] = stats0["failed"] + 1
           /\ stats["cloned"] = stats0["cloned"]
           /\ message.id \notin DOMAIN message_map
    /\ (last_send.site = "media_dropped") =>
           /\ nsends = 2
           /\ ~last_send.file
           /\ last_send.text = <<message.text, "[Media could not be sent]">>
           /\ pc = "returned"
           /\ (last_send.out # OK) =>
                  /\ stats["failed"] = stats0["failed"] + 1
                  /\ stats["cloned"] = stats0["cloned"]
                  /\ message.id \notin DOMAIN message_map

C17_Witness ==
    /\ pc = "returned"
    /\ last_send.site = "media_dropped" /\ last_send.out # OK
    /\ stats["failed"] = stats0["failed"] + 1

\* C18: every step keeps the entries of message_map, adds an entry only for the
\* message whose send has just succeeded, and a message that returns counted
\* failed has no entry.
C18_MapAppendOnly ==
    [][/\ \A id \in DOMAIN message_map :
              id \in DOMAIN message_map' /\ message_map'[id] = message_map[id]
       /\ \A id \in DOMAIN message_map' \ DOMAIN message_map :
              id = message.id /\ nsends' = nsends + 1 /\ last_send'.out = OK
       /\ (pc' = "returned" /\ ~redo' /\ stats'["failed"] > stats0'["failed"]) =>
              message'.id \notin DOMAIN message_map']_vars

\* the counters of the content kinds
KindKeys == {"photos", "videos", "files", "voices", "music", "gifs", "stickers", "polls",
             "contacts", "forwards", "text_only"}

\* C19: while a message has no successful send, every content-kind counter has
\* the value it had when the dispatch of the message began; in particular a
\* message that ends failed leaves them unchanged.
C19_KindCountedOnSuccess ==
    (InProcessMessage /\ ~redo /\ message.id \notin DOMAIN message_map) =>
        \A k \in KindKeys : stats[k] = stats0[k]

\* the counters a document may increment
DocKinds == {"videos", "voices", "music", "stickers", "gifs", "files"}

\* the kind of the first attribute that is video, audio, sticker or animated;
\* files when there is none
ExpectedDocKind(attrs) ==
    LET hits == {k \in 1..Len(attrs) :
                    attrs[k] \in {"video", "audio_voice", "audio", "sticker", "animated"}}
    IN IF hits = {} THEN "files"
       ELSE LET first == CHOOSE k \in hits : \A j \in hits : k <= j
            IN CASE attrs[first] = "video" -> "videos"
                 [] attrs[first] = "audio_voice" -> "voices"
                 [] attrs[first] = "audio" -> "music"
                 [] attrs[first] = "sticker" -> "stickers"
                 [] attrs[first] = "animated" -> "gifs"

\* C20: once a document has been downloaded, exactly one of the document
\* counters has been incremented for the message, the one of the first matching
\* attribute, files when no attribute matches or the list is empty.
C20_DocumentClassified ==
    (InProcessMessage /\ ~redo /\ message.media = "document" /\ file) =>
        \A k \in DocKinds :
            stats[k] = stats0[k] + (IF k = ExpectedDocKind(message.attributes) THEN 1 ELSE 0)

\* C21: when start_cloning has completed its loop (or found nothing to clone),
\* every fetched message has been counted exactly once:
\* total = cloned + skipped + failed.
C21_AccountingBalance ==
    (pc \in {"finally", "done"} /\ outcome = "stats") =>
        stats["total"] = stats["cloned"] + stats["skipped"] + stats["failed"]

\* C22: a call of process_message makes at most four send attempts and at most
\* one recursive re-entry, and start_cloning ends whatever the client raises.
C22_Termination ==
    /\ [](nsends <= 4 /\ depth <= 1)
    /\ <>(pc = "done")

C22_Witness ==
    pc = "returned" /\ nsends = 4 /\ depth = 1 /\ slept > 0

\* C23: the album id is in seen_album_ids as soon as the first message of the
\* album is past the album guard, before any send; a message of an album of
\* which a message was dispatched before is skipped without a send; and only
\* the first dispatched message of an album ever gets a message_map entry, so
\* when that one is not cloned no message of the album is.
C23_AlbumLoss ==
    [][/\ (pc = "entry" /\ message.id \notin processed_messages_ids
             /\ message'.grouped_id # None) =>
              /\ message'.grouped_id \in seen_album_ids'
              /\ (album_msgs[message'.grouped_id] >= 1) =>
                     /\ pc' = "returned"
                     /\ stats'["skipped"] = stats["skipped"] + 1
                     /\ UNCHANGED <<message_map, dest, nsends, ndownloads>>
       /\ (message_map' # message_map /\ message.grouped_id # None) =>
              album_msgs[message.grouped_id] = 1]_vars

C23_Witness ==
    /\ pc = "returned"
    /\ message.grouped_id \in AlbumIds
    /\ album_msgs[message.grouped_id] = 2
    /\ stats["failed"] = 1 /\ stats["skipped"] = 1 /\ stats["cloned"] = 0
    /\ dest = <<>>

====
